---- MODULE Spec2Model ----
(***************************************************************************)
(* PGWizardConnectionPool (src/src/pgwizard/connection.py): a pool of      *)
(* PostgreSQL sessions keyed by name, one master slot and a list of slave  *)
(* slots per name, each slot holding a plain and a transactional session   *)
(* that are probed at most once per connection test interval.              *)
(***************************************************************************)
EXTENDS Integers, Sequences, FiniteSets, TLC

\* ---------------------------------------------------------------- bounds
\* The largest connection test interval a pool is constructed with.
MaxInterval == 2
\* The clock runs just past one full interval.
MaxTime == MaxInterval + 1
\* Sessions psycopg2.connect creates in one run.
MaxSessions == 2
\* Cursors open at once on one session.
MaxCursors == 2
\* Registration calls in one run of registrations and acquisitions.
MaxSlots == 2
\* Registration calls in one run of the registry alone.
MaxRegistrations == 4
\* Statements a caller executes on one session.
MaxStatements == 2

\* ------------------------------------------------------------- constants
\* Python's None, for a slot's session and for its expiration time.
None == -1

\* The names callers register and ask for.
Names == {"a", "b"}

\* The (database, host, port, user, password) tuples callers register.
Server1 == [database |-> "db1", host |-> "h1", port |-> "5432", user |-> "u", password |-> "p"]

Server2 == [database |-> "db2", host |-> "h2", port |-> "5432", user |-> "u", password |-> "p"]

Servers == {Server1, Server2}

Modes == {"plain", "transactional"}

\* The intervals, in clock ticks, a pool is constructed with.
Intervals == 1..MaxInterval

AcquireOps ==
    { "get_master_connection", "get_slave_connection",
      "get_master_transactional_connection", "get_slave_transactional_connection" }

VARIABLES
    now,                        \* datetime.datetime.now()
    connection_test_interval,   \* self._connection_test_interval
    master,                     \* self._master : name -> slot
    master_order,               \* insertion order of the keys of self._master
    slave,                      \* self._slave : name -> sequence of slots
    slave_order,                \* insertion order of the keys of self._slave
    sessions,                   \* the psycopg2 sessions created so far, by id
    ret,                        \* outcome of the call made by the last step, if it was a call
    regs,                       \* the registration calls made so far, in call order
    probe_log,                  \* per handle, the time of its last liveness check
    pool_alive,                 \* FALSE once __del__ has run
    threads                     \* per caller, how far into a get_* method it is, and its locals

vars == << now, connection_test_interval, master, master_order, slave, slave_order,
           sessions, ret, regs, probe_log, pool_alive, threads >>

\* ------------------------------------------------------------ data model
ServerOf(slot) ==
    [database |-> slot.database, host |-> slot.host, port |-> slot.port,
     user |-> slot.user, password |-> slot.password]

\* The dictionary both registration methods build.
NewSlot(server) ==
    [database |-> server.database, host |-> server.host, port |-> server.port,
     user |-> server.user, password |-> server.password,
     connection |-> None,
     transactional_connection |-> None,
     connection_test_expiration_time |-> None,
     transactional_connection_test_expiration_time |-> None]

ConnField(mode) ==
    IF mode = "plain" THEN "connection" ELSE "transactional_connection"

ExpField(mode) ==
    IF mode = "plain" THEN "connection_test_expiration_time"
    ELSE "transactional_connection_test_expiration_time"

\* A connect that leaves every session in autocommit mode.
ConnectAutocommit(slot, mode, t) ==
    [server |-> ServerOf(slot), autocommit |-> TRUE,
     status |-> "live", cursors |-> 0, started_at |-> t,
     in_transaction |-> FALSE, pending |-> 0, committed |-> 0]

\* psycopg2.connect(...) followed by the autocommit assignment.  pending counts
\* the caller's statements of the open transaction, committed those made durable.
Connect(slot, mode, t) ==
    [server |-> ServerOf(slot), autocommit |-> (mode = "plain"),
     status |-> "live", cursors |-> 0, started_at |-> t,
     in_transaction |-> FALSE, pending |-> 0, committed |-> 0]

PGWizardConnection(c) == [cls |-> "PGWizardConnection", connection |-> c]

PGWizardTransactionalConnection(c) == [cls |-> "PGWizardTransactionalConnection", connection |-> c]

Wrap(mode, c) ==
    IF mode = "plain" THEN PGWizardConnection(c) ELSE PGWizardTransactionalConnection(c)

\* A handle is one (role, name, index, mode) position of the pool.
HandleKeys == {"master", "slave"} \X Names \X (0..MaxRegistrations + 1) \X Modes

\* ret when the last step was not a call of the pool.  returned is the object a
\* call hands back; it means nothing unless the outcome is "ok".
NoRet ==
    [op |-> "none", name |-> "none", idx |-> 0, outcome |-> "ok", probed |-> FALSE,
     connected |-> FALSE, returned |-> PGWizardConnection(None)]

RoleOf(op) ==
    IF op \in {"get_master_connection", "get_master_transactional_connection",
               "set_master_database_server"}
    THEN "master" ELSE "slave"

ModeOf(op) ==
    IF op \in {"get_master_connection", "get_slave_connection"}
    THEN "plain" ELSE "transactional"

\* Two callers that can be inside a get_* method at the same time.
Callers == {"first", "second"}

\* A caller outside every get_* method.  The locals mean nothing while pc is "idle".
IdleThread ==
    [pc |-> "idle", op |-> "none", name |-> "none", idx |-> 0, now |-> 0,
     expiration_time |-> None, connection |-> None, probed |-> FALSE, connected |-> FALSE]

Init ==
    /\ now = 0
    /\ connection_test_interval \in Intervals
    /\ master = << >>
    /\ master_order = << >>
    /\ slave = << >>
    /\ slave_order = << >>
    /\ sessions = << >>
    /\ ret = NoRet
    /\ regs = << >>
    /\ probe_log = [h \in HandleKeys |-> None]
    /\ pool_alive = TRUE
    /\ threads = [t \in Callers |-> IdleThread]

\* ----------------------------------------------------------- environment
\* The clock advances between calls.
Tick ==
    /\ pool_alive
    /\ now' = now + 1
    /\ ret' = NoRet
    /\ UNCHANGED << connection_test_interval, master, master_order, slave, slave_order,
                    sessions, regs, probe_log, pool_alive, threads >>

\* A server or the network drops a session: from now on its probe fails.
SessionDies(s) ==
    /\ pool_alive
    /\ sessions[s].status = "live"
    /\ sessions' = [sessions EXCEPT ![s].status = "broken"]
    /\ ret' = NoRet
    /\ UNCHANGED << now, connection_test_interval, master, master_order, slave, slave_order,
                    regs, probe_log, pool_alive, threads >>

\* ---------------------------------------------------------- registration
\* A registration that keeps the sessions of the slot it replaces.
SetMasterSlotKeeping(m, name, server) ==
    [n \in (DOMAIN m) \cup {name} |->
        IF n # name THEN m[n]
        ELSE IF name \in DOMAIN m
        THEN [NewSlot(server) EXCEPT
                 !.connection = m[name].connection,
                 !.transactional_connection = m[name].transactional_connection]
        ELSE NewSlot(server)]

SetMasterSlot(m, name, server) ==
    [n \in (DOMAIN m) \cup {name} |-> IF n = name THEN NewSlot(server) ELSE m[n]]

set_master_database_server(name, server) ==
    /\ pool_alive
    /\ master' = SetMasterSlot(master, name, server)
    /\ master_order' = IF name \in DOMAIN master THEN master_order
                       ELSE Append(master_order, name)
    /\ regs' = Append(regs, [kind |-> "master", name |-> name, server |-> server])
    /\ probe_log' = [h \in HandleKeys |->
                        IF h[1] = "master" /\ h[2] = name THEN None ELSE probe_log[h]]
    /\ ret' = [NoRet EXCEPT !.op = "set_master_database_server", !.name = name]
    /\ UNCHANGED << now, connection_test_interval, slave, slave_order, sessions,
                    pool_alive, threads >>

\* The list of the name is created anew by every call.
AddSlaveSlotResetting(sl, name, server) ==
    [n \in (DOMAIN sl) \cup {name} |->
        IF n = name THEN << NewSlot(server) >> ELSE sl[n]]

AddSlaveSlot(sl, name, server) ==
    [n \in (DOMAIN sl) \cup {name} |->
        IF n = name
        THEN Append(IF name \in DOMAIN sl THEN sl[name] ELSE << >>, NewSlot(server))
        ELSE sl[n]]

add_slave_database_server(name, server) ==
    /\ pool_alive
    /\ slave' = AddSlaveSlot(slave, name, server)
    /\ slave_order' = IF name \in DOMAIN slave THEN slave_order
                      ELSE Append(slave_order, name)
    /\ regs' = Append(regs, [kind |-> "slave", name |-> name, server |-> server])
    /\ ret' = [NoRet EXCEPT !.op = "add_slave_database_server", !.name = name]
    /\ UNCHANGED << now, connection_test_interval, master, master_order, sessions,
                    probe_log, pool_alive, threads >>

\* ------------------------------------------------------------ acquisition
\* A test that is due only as long as the handle was never tested.
TestDueOnce(exp, t) == exp = None

\* A test that is also due at the very instant the expiration time is reached.
TestDueInclusive(exp, t) == exp = None \/ exp <= t

\* "expiration_time is None or expiration_time < now"
TestDue(exp, t) == exp = None \/ exp < t

\* The try block: cursor(), execute("SELECT 1"), (commit(),) close() on the
\* slot's session.  It raises on None and on a session that is not usable.
ProbeOk(ss, conn) == conn # None /\ ss[conn].status = "live"

\* cursor.execute("SELECT 1"): outside autocommit mode the statement opens a
\* transaction on the session.
Executed(s) == IF s.autocommit THEN s ELSE [s EXCEPT !.in_transaction = TRUE]

\* connection.commit(): ends the transaction and makes its statements durable.
Committed(s) ==
    [s EXCEPT !.in_transaction = FALSE, !.committed = @ + s.pending, !.pending = 0]

\* connection.rollback(): ends the transaction and drops its statements.
RolledBack(s) == [s EXCEPT !.in_transaction = FALSE, !.pending = 0]

\* A probe that never commits.
ProbedUncommitted(s, mode) == Executed(s)

\* The session after a successful probe: SELECT 1, and commit() on a
\* transactional handle.
Probed(s, mode) == IF mode = "plain" THEN Executed(s) ELSE Committed(Executed(s))

\* One expiration time for both handles of the slot.
StampedBoth(slot, mode, t, interval) ==
    [slot EXCEPT !.connection_test_expiration_time = t + interval,
                 !.transactional_connection_test_expiration_time = t + interval]

\* The expiration time is the time of the test itself.
StampedAtNow(slot, mode, t, interval) == [slot EXCEPT ![ExpField(mode)] = t]

\* "now + self._connection_test_interval" stored before the probe.
Stamped(slot, mode, t, interval) == [slot EXCEPT ![ExpField(mode)] = t + interval]

\* The new session is never stored in the slot.
NotAdopted(slot, mode, c) == slot

\* "master['connection'] = connection" in the except block.
Adopted(slot, mode, c) == [slot EXCEPT ![ConnField(mode)] = c]

\* The body shared by the four get_* methods once the slot is selected.
\* ok: whether psycopg2.connect succeeds, should it be called.
Acquire(slot, mode, ok) ==
    LET conn == slot[ConnField(mode)]
        due == TestDue(slot[ExpField(mode)], now)
        stamped == Stamped(slot, mode, now, connection_test_interval)
        adopted == Adopted(stamped, mode, Len(sessions) + 1)
    IN  IF ~due
        THEN [slot |-> slot, outcome |-> "ok", probed |-> FALSE, connected |-> FALSE,
              returned |-> Wrap(mode, conn), created |-> << >>, sessions |-> sessions]
        ELSE IF ProbeOk(sessions, conn)
        THEN [slot |-> stamped, outcome |-> "ok", probed |-> TRUE, connected |-> FALSE,
              returned |-> Wrap(mode, stamped[ConnField(mode)]), created |-> << >>,
              sessions |-> [sessions EXCEPT ![conn] = Probed(@, mode)]]
        ELSE IF ok
        THEN [slot |-> adopted, outcome |-> "ok", probed |-> TRUE, connected |-> TRUE,
              returned |-> Wrap(mode, adopted[ConnField(mode)]),
              created |-> << Connect(slot, mode, now) >>, sessions |-> sessions]
        ELSE [slot |-> stamped, outcome |-> "OperationalError", probed |-> TRUE,
              connected |-> TRUE, returned |-> Wrap(mode, None), created |-> << >>,
              sessions |-> sessions]

\* The call raised before it selected a slot.
Raise(op, name, error) ==
    /\ ret' = [NoRet EXCEPT !.op = op, !.name = name, !.outcome = error,
                            !.returned = Wrap(ModeOf(op), None)]
    /\ UNCHANGED << master, slave, sessions, probe_log >>

\* What a get_* call leaves behind besides the slot itself.
Finish(op, name, idx, r) ==
    /\ sessions' = r.sessions \o r.created
    /\ probe_log' = IF r.probed
                    THEN [probe_log EXCEPT ![<< RoleOf(op), name, idx, ModeOf(op) >>] = now]
                    ELSE probe_log
    /\ ret' = [op |-> op, name |-> name, idx |-> idx, outcome |-> r.outcome,
               probed |-> r.probed, connected |-> r.connected, returned |-> r.returned]

\* "master = self._master[name]"
MasterLookup(m, name) == IF name \in DOMAIN m THEN "ok" ELSE "KeyError"

\* A lookup that takes a missing name for an empty list of slaves.
SlaveLookupDefaulting(sl, name) ==
    IF name \notin DOMAIN sl \/ Len(sl[name]) = 0 THEN "IndexError" ELSE "ok"

\* "random.choice(self._slave[name])"
SlaveLookup(sl, name) ==
    IF name \notin DOMAIN sl THEN "KeyError"
    ELSE IF Len(sl[name]) = 0 THEN "IndexError"
    ELSE "ok"

GetMaster(op, name, ok) ==
    /\ pool_alive
    /\ IF MasterLookup(master, name) # "ok"
       THEN Raise(op, name, MasterLookup(master, name))
       ELSE LET r == Acquire(master[name], ModeOf(op), ok)
            IN  /\ master' = [master EXCEPT ![name] = r.slot]
                /\ UNCHANGED slave
                /\ Finish(op, name, 0, r)
    /\ UNCHANGED << now, connection_test_interval, master_order, slave_order, regs,
                    pool_alive, threads >>

\* pick: the position random.choice draws, reduced to the length of the list.
GetSlave(op, name, pick, ok) ==
    /\ pool_alive
    /\ IF SlaveLookup(slave, name) # "ok"
       THEN Raise(op, name, SlaveLookup(slave, name))
       ELSE LET idx == (pick % Len(slave[name])) + 1
                r == Acquire(slave[name][idx], ModeOf(op), ok)
            IN  /\ slave' = [slave EXCEPT ![name][idx] = r.slot]
                /\ UNCHANGED master
                /\ Finish(op, name, idx, r)
    /\ UNCHANGED << now, connection_test_interval, master_order, slave_order, regs,
                    pool_alive, threads >>

get_master_connection(name, ok) == GetMaster("get_master_connection", name, ok)

get_slave_connection(name, pick, ok) == GetSlave("get_slave_connection", name, pick, ok)

get_master_transactional_connection(name, ok) ==
    GetMaster("get_master_transactional_connection", name, ok)

get_slave_transactional_connection(name, pick, ok) ==
    GetSlave("get_slave_transactional_connection", name, pick, ok)

\* ------------------------------------------ get_*, statement by statement
\* Nothing in a get_* method keeps another caller out of it: a second thread
\* can run between any two of its statements.  threads[t] holds the locals of
\* caller t and the statement it is about to run.
ThreadHandle(th) == << RoleOf(th.op), th.name, th.idx, ModeOf(th.op) >>

\* The dictionary the local variable master (or slave) of a caller refers to.
ThreadSlot(th) ==
    IF RoleOf(th.op) = "master" THEN master[th.name] ELSE slave[th.name][th.idx]

\* An assignment to a key of that dictionary.
WriteSlot(th, slot) ==
    IF RoleOf(th.op) = "master"
    THEN master' = [master EXCEPT ![th.name] = slot] /\ UNCHANGED slave
    ELSE slave' = [slave EXCEPT ![th.name][th.idx] = slot] /\ UNCHANGED master

Lookup(op, name) ==
    IF RoleOf(op) = "master" THEN MasterLookup(master, name) ELSE SlaveLookup(slave, name)

\* The first three statements: select the slot, read the clock, read the
\* slot's expiration time.
Enter(t, op, name, pick) ==
    /\ pool_alive
    /\ threads[t].pc = "idle"
    /\ IF Lookup(op, name) # "ok"
       THEN Raise(op, name, Lookup(op, name)) /\ UNCHANGED threads
       ELSE LET th == [IdleThread EXCEPT
                          !.op = op, !.name = name,
                          !.idx = IF RoleOf(op) = "master" THEN 0
                                  ELSE (pick % Len(slave[name])) + 1]
            IN  /\ threads' = [threads EXCEPT ![t] =
                                  [th EXCEPT !.pc = "test", !.now = now,
                                             !.expiration_time =
                                                 ThreadSlot(th)[ExpField(ModeOf(op))]]]
                /\ ret' = NoRet
                /\ UNCHANGED << master, slave, sessions, probe_log >>
    /\ UNCHANGED << now, connection_test_interval, master_order, slave_order, regs,
                    pool_alive >>

\* The if statement and, when the test is due, the assignment of the new
\* expiration time.
Test(t) ==
    LET th == threads[t]
    IN  /\ pool_alive
        /\ th.pc = "test"
        /\ IF TestDue(th.expiration_time, th.now)
           THEN /\ WriteSlot(th, Stamped(ThreadSlot(th), ModeOf(th.op), th.now,
                                         connection_test_interval))
                /\ threads' = [threads EXCEPT ![t].pc = "probe"]
           ELSE /\ threads' = [threads EXCEPT ![t].pc = "return"]
                /\ UNCHANGED << master, slave >>
        /\ ret' = NoRet
        /\ UNCHANGED << now, connection_test_interval, master_order, slave_order, sessions,
                        regs, probe_log, pool_alive >>

\* The try block.
Probe(t) ==
    LET th == threads[t]
        conn == ThreadSlot(th)[ConnField(ModeOf(th.op))]
    IN  /\ pool_alive
        /\ th.pc = "probe"
        /\ IF ProbeOk(sessions, conn)
           THEN /\ sessions' = [sessions EXCEPT ![conn] = Probed(@, ModeOf(th.op))]
                /\ threads' = [threads EXCEPT ![t].pc = "return", ![t].probed = TRUE,
                                              ![t].connection = conn]
           ELSE /\ UNCHANGED sessions
                /\ threads' = [threads EXCEPT ![t].pc = "connect", ![t].probed = TRUE]
        /\ probe_log' = [probe_log EXCEPT ![ThreadHandle(th)] = th.now]
        /\ ret' = NoRet
        /\ UNCHANGED << now, connection_test_interval, master, master_order, slave,
                        slave_order, regs, pool_alive >>

\* The first two statements of the except block: psycopg2.connect and the
\* autocommit assignment.  A connect that raises ends the call.
Reconnect(t, ok) ==
    LET th == threads[t]
    IN  /\ pool_alive
        /\ th.pc = "connect"
        /\ IF ok
           THEN /\ sessions' = Append(sessions, Connect(ThreadSlot(th), ModeOf(th.op), now))
                /\ threads' = [threads EXCEPT ![t].pc = "store", ![t].connected = TRUE,
                                              ![t].connection = Len(sessions) + 1]
                /\ ret' = NoRet
           ELSE /\ UNCHANGED sessions
                /\ threads' = [threads EXCEPT ![t] = IdleThread]
                /\ ret' = [op |-> th.op, name |-> th.name, idx |-> th.idx,
                           outcome |-> "OperationalError", probed |-> TRUE,
                           connected |-> TRUE, returned |-> Wrap(ModeOf(th.op), None)]
        /\ UNCHANGED << now, connection_test_interval, master, master_order, slave,
                        slave_order, regs, probe_log, pool_alive >>

\* The last statement of the except block: the new session goes into the slot.
Store(t) ==
    LET th == threads[t]
    IN  /\ pool_alive
        /\ th.pc = "store"
        /\ WriteSlot(th, Adopted(ThreadSlot(th), ModeOf(th.op), th.connection))
        /\ threads' = [threads EXCEPT ![t].pc = "return"]
        /\ ret' = NoRet
        /\ UNCHANGED << now, connection_test_interval, master_order, slave_order, sessions,
                        regs, probe_log, pool_alive >>

\* The return statement: a wrapper around whatever the slot holds now.
Return(t) ==
    LET th == threads[t]
    IN  /\ pool_alive
        /\ th.pc = "return"
        /\ ret' = [op |-> th.op, name |-> th.name, idx |-> th.idx, outcome |-> "ok",
                   probed |-> th.probed, connected |-> th.connected,
                   returned |-> Wrap(ModeOf(th.op), ThreadSlot(th)[ConnField(ModeOf(th.op))])]
        /\ threads' = [threads EXCEPT ![t] = IdleThread]
        /\ UNCHANGED << now, connection_test_interval, master, master_order, slave,
                        slave_order, sessions, regs, probe_log, pool_alive >>

\* ---------------------------------------------------------------- cursors
\* PGWizardConnection.open_cursor on a wrapper w: PGWizardCursor.__init__ calls
\* cursor() on the wrapped session, whatever cursors that session already has.
CursorOutcome(ss, w) ==
    IF w.connection = None THEN "AttributeError"
    ELSE IF ss[w.connection].status = "closed" THEN "InterfaceError"
    ELSE "ok"

open_cursor(w) ==
    /\ pool_alive
    /\ sessions' = IF CursorOutcome(sessions, w) = "ok"
                   THEN [sessions EXCEPT ![w.connection].cursors = @ + 1]
                   ELSE sessions
    /\ ret' = [NoRet EXCEPT !.op = "open_cursor", !.outcome = CursorOutcome(sessions, w),
                            !.returned = w]
    /\ UNCHANGED << now, connection_test_interval, master, master_order, slave, slave_order,
                    regs, probe_log, pool_alive, threads >>

\* PGWizardCursor.close on one of the open cursors of session s.
close_cursor(s) ==
    /\ pool_alive
    /\ sessions[s].cursors > 0
    /\ sessions' = [sessions EXCEPT ![s].cursors = @ - 1]
    /\ ret' = [NoRet EXCEPT !.op = "close_cursor",
                            !.returned = Wrap(IF sessions[s].autocommit THEN "plain"
                                              ELSE "transactional", s)]
    /\ UNCHANGED << now, connection_test_interval, master, master_order, slave, slave_order,
                    regs, probe_log, pool_alive, threads >>

\* ----------------------------------------------------------- transactions
\* What a statement sent over the session of wrapper w raises, if it does.
StatementOutcome(ss, w) ==
    IF w.connection = None THEN "AttributeError"
    ELSE IF ss[w.connection].status = "closed" THEN "InterfaceError"
    ELSE IF ss[w.connection].status = "broken" THEN "OperationalError"
    ELSE "ok"

\* A statement of the caller: it takes effect at once in autocommit mode, and
\* joins the open transaction otherwise.
Statement(s) ==
    IF s.autocommit THEN [s EXCEPT !.committed = @ + 1]
    ELSE [s EXCEPT !.in_transaction = TRUE, !.pending = @ + 1]

\* The wrapper a caller holds for session s.
WrapperOf(s) == Wrap(IF sessions[s].autocommit THEN "plain" ELSE "transactional", s)

\* PGWizardCursor.execute on one of the open cursors of session s.
execute(s) ==
    /\ pool_alive
    /\ sessions[s].cursors > 0
    /\ sessions' = IF StatementOutcome(sessions, WrapperOf(s)) = "ok"
                   THEN [sessions EXCEPT ![s] = Statement(@)]
                   ELSE sessions
    /\ ret' = [NoRet EXCEPT !.op = "execute",
                            !.outcome = StatementOutcome(sessions, WrapperOf(s)),
                            !.returned = WrapperOf(s)]
    /\ UNCHANGED << now, connection_test_interval, master, master_order, slave, slave_order,
                    regs, probe_log, pool_alive, threads >>

\* PGWizardTransactionalConnection.commit on a wrapper w.
commit(w) ==
    /\ pool_alive
    /\ w.cls = "PGWizardTransactionalConnection"
    /\ sessions' = IF StatementOutcome(sessions, w) = "ok"
                   THEN [sessions EXCEPT ![w.connection] = Committed(@)]
                   ELSE sessions
    /\ ret' = [NoRet EXCEPT !.op = "commit", !.outcome = StatementOutcome(sessions, w),
                            !.returned = w]
    /\ UNCHANGED << now, connection_test_interval, master, master_order, slave, slave_order,
                    regs, probe_log, pool_alive, threads >>

\* PGWizardTransactionalConnection.rollback on a wrapper w.
rollback(w) ==
    /\ pool_alive
    /\ w.cls = "PGWizardTransactionalConnection"
    /\ sessions' = IF StatementOutcome(sessions, w) = "ok"
                   THEN [sessions EXCEPT ![w.connection] = RolledBack(@)]
                   ELSE sessions
    /\ ret' = [NoRet EXCEPT !.op = "rollback", !.outcome = StatementOutcome(sessions, w),
                            !.returned = w]
    /\ UNCHANGED << now, connection_test_interval, master, master_order, slave, slave_order,
                    regs, probe_log, pool_alive, threads >>

\* --------------------------------------------------------------- teardown
\* The sessions of one slot in the order __del__ closes them; None is skipped.
SlotSessions(slot) ==
    (IF slot.connection # None THEN << slot.connection >> ELSE << >>)
    \o (IF slot.transactional_connection # None
        THEN << slot.transactional_connection >> ELSE << >>)

RECURSIVE SlotsSessions(_)
SlotsSessions(slots) ==
    IF slots = << >> THEN << >>
    ELSE SlotSessions(Head(slots)) \o SlotsSessions(Tail(slots))

RECURSIVE MasterSessions(_, _)
MasterSessions(m, order) ==
    IF order = << >> THEN << >>
    ELSE SlotSessions(m[Head(order)]) \o MasterSessions(m, Tail(order))

RECURSIVE SlaveSessions(_, _)
SlaveSessions(sl, order) ==
    IF order = << >> THEN << >>
    ELSE SlotsSessions(sl[Head(order)]) \o SlaveSessions(sl, Tail(order))

\* Every close() call __del__ makes when none raises, in order.
CloseOrder == MasterSessions(master, master_order) \o SlaveSessions(slave, slave_order)

\* The sessions closed when the close() call number failing raises (0: none
\* raises): the exception leaves __del__, the calls after it are not made.
ClosedBy(order, failing) ==
    { order[i] : i \in { j \in 1..Len(order) : failing = 0 \/ j < failing } }

\* PGWizardConnectionPool.__del__
del(failing) ==
    /\ pool_alive
    /\ failing \in 0..Len(CloseOrder)
    /\ sessions' = [s \in 1..Len(sessions) |->
                        IF s \in ClosedBy(CloseOrder, failing)
                        THEN [sessions[s] EXCEPT !.status = "closed"]
                        ELSE sessions[s]]
    /\ pool_alive' = FALSE
    /\ ret' = [NoRet EXCEPT !.op = "del",
                            !.outcome = IF failing = 0 THEN "ok" ELSE "Error",
                            !.idx = failing]
    /\ UNCHANGED << now, connection_test_interval, master, master_order, slave, slave_order,
                    regs, probe_log, threads >>

\* ------------------------------------------------------- specifications
\* The picks random.choice can make on a list of at most MaxSlots slots.
Picks == 0..(MaxSlots - 1)

\* The pool serves one endpoint, registered by the first call.
Startup == regs = << >>

\* A successful connect is cut off once MaxSessions sessions exist.
CanConnect(ok) == ok => Len(sessions) < MaxSessions

\* The wrappers a caller can hold: one per session a get_* call has returned,
\* and the wrapper the last get_* call returned.
Held ==
    { Wrap(IF sessions[s].autocommit THEN "plain" ELSE "transactional", s) :
        s \in 1..Len(sessions) }
    \cup (IF ret.op \in AcquireOps /\ ret.outcome = "ok" THEN {ret.returned} ELSE {})

CanOpen(w) == w.connection # None => sessions[w.connection].cursors < MaxCursors

\* The sessions some slot of the pool holds.
Pooled == { CloseOrder[i] : i \in 1..Len(CloseOrder) }

\* One endpoint: probing, throttling, reconnection and teardown over time.
Next ==
    \/ now < MaxTime /\ Tick
    \/ \E s \in Pooled : SessionDies(s)
    \/ Startup /\ set_master_database_server("a", Server1)
    \/ Startup /\ add_slave_database_server("a", Server1)
    \/ \E name \in Names, ok \in BOOLEAN :
        CanConnect(ok) /\ get_master_connection(name, ok)
    \/ \E name \in Names, ok \in BOOLEAN :
        CanConnect(ok) /\ get_slave_connection(name, 0, ok)
    \/ \E name \in Names, ok \in BOOLEAN :
        CanConnect(ok) /\ get_master_transactional_connection(name, ok)
    \/ \E name \in Names, ok \in BOOLEAN :
        CanConnect(ok) /\ get_slave_transactional_connection(name, 0, ok)
    \/ \E failing \in 0..(2 * MaxSessions) : del(failing)

Spec == Init /\ [][Next]_vars

\* The registry alone: any sequence of registration calls.
NextRegistry ==
    \/ \E name \in Names, server \in Servers :
        Len(regs) < MaxRegistrations /\ set_master_database_server(name, server)
    \/ \E name \in Names, server \in Servers :
        Len(regs) < MaxRegistrations /\ add_slave_database_server(name, server)

SpecRegistry == Init /\ [][NextRegistry]_vars

\* Routing: registrations and acquisitions over several names and servers, the
\* clock standing still.
NextRouting ==
    \/ \E name \in Names, server \in Servers :
        Len(regs) < MaxSlots /\ set_master_database_server(name, server)
    \/ \E name \in Names, server \in Servers :
        Len(regs) < MaxSlots /\ add_slave_database_server(name, server)
    \/ \E name \in Names, ok \in BOOLEAN :
        CanConnect(ok) /\ get_master_connection(name, ok)
    \/ \E name \in Names, pick \in Picks, ok \in BOOLEAN :
        CanConnect(ok) /\ get_slave_connection(name, pick, ok)
    \/ \E name \in Names, ok \in BOOLEAN :
        CanConnect(ok) /\ get_master_transactional_connection(name, ok)
    \/ \E name \in Names, pick \in Picks, ok \in BOOLEAN :
        CanConnect(ok) /\ get_slave_transactional_connection(name, pick, ok)

SpecRouting == Init /\ [][NextRouting]_vars

\* Cursors: one master endpoint, the wrappers its get_* calls return and the
\* cursors opened and closed on them.
NextCursor ==
    \/ Startup /\ set_master_database_server("a", Server1)
    \/ \E ok \in BOOLEAN : CanConnect(ok) /\ get_master_connection("a", ok)
    \/ \E ok \in BOOLEAN : CanConnect(ok) /\ get_master_transactional_connection("a", ok)
    \/ \E s \in Pooled : SessionDies(s)
    \/ \E w \in Held : CanOpen(w) /\ open_cursor(w)
    \/ \E s \in 1..Len(sessions) : close_cursor(s)
    \/ \E failing \in 0..(2 * MaxSessions) : del(failing)

SpecCursor == Init /\ [][NextCursor]_vars

\* Independence of the handles: a master with both of its handles and a slave
\* under the same or another name.
NextFrame ==
    \/ now < MaxTime /\ Tick
    \/ Len(regs) = 0 /\ set_master_database_server("a", Server1)
    \/ \E name \in Names : Len(regs) = 1 /\ add_slave_database_server(name, Server2)
    \/ \E ok \in BOOLEAN : CanConnect(ok) /\ get_master_connection("a", ok)
    \/ \E name \in Names, ok \in BOOLEAN :
        CanConnect(ok) /\ get_slave_connection(name, 0, ok)
    \/ \E ok \in BOOLEAN : CanConnect(ok) /\ get_master_transactional_connection("a", ok)

SpecFrame == Init /\ [][NextFrame]_vars

\* Lazy connection: a master that is registered and, at some point, registered
\* again with the same or other parameters, its sessions dying at will.
NextLazy ==
    \/ now < MaxTime /\ Tick
    \/ \E s \in Pooled : SessionDies(s)
    \/ \E server \in Servers : Len(regs) < 2 /\ set_master_database_server("a", server)
    \/ \E ok \in BOOLEAN : CanConnect(ok) /\ get_master_connection("a", ok)
    \/ \E ok \in BOOLEAN : CanConnect(ok) /\ get_master_transactional_connection("a", ok)

SpecLazy == Init /\ [][NextLazy]_vars

\* A caller stops executing statements on a session after MaxStatements of them.
CanExecute(s) == sessions[s].pending + sessions[s].committed < MaxStatements

\* The caller works with one cursor per session.
NoCursor(w) == w.connection # None => sessions[w.connection].cursors = 0

\* Transactions: one master endpoint, its transactional handle, and a caller
\* who executes, commits and rolls back on the sessions it was handed.
NextTransaction ==
    \/ now < MaxTime /\ Tick
    \/ \E s \in Pooled : SessionDies(s)
    \/ Startup /\ set_master_database_server("a", Server1)
    \/ \E ok \in BOOLEAN :
        CanConnect(ok) /\ get_master_transactional_connection("a", ok)
    \/ \E w \in Held : NoCursor(w) /\ open_cursor(w)
    \/ \E s \in 1..Len(sessions) : CanExecute(s) /\ execute(s)
    \/ \E w \in Held : commit(w)
    \/ \E w \in Held : rollback(w)

SpecTransaction == Init /\ [][NextTransaction]_vars

\* Threads: the callers run get_master_connection on one endpoint statement by
\* statement, in any interleaving.
NextThreads ==
    \/ now < MaxTime /\ Tick
    \/ Startup /\ set_master_database_server("a", Server1)
    \/ \E t \in Callers : Enter(t, "get_master_connection", "a", 0)
    \/ \E t \in Callers : Test(t)
    \/ \E t \in Callers : Probe(t)
    \/ \E t \in Callers, ok \in BOOLEAN : CanConnect(ok) /\ Reconnect(t, ok)
    \/ \E t \in Callers : Store(t)
    \/ \E t \in Callers : Return(t)

SpecThreads == Init /\ [][NextThreads]_vars

\* Recovery: the server refuses connections and drops sessions at will until
\* ServerBackAt, and accepts every connection from then on; the clock runs on
\* for one more interval.
ServerBackAt == MaxTime

RecoveryEnd == ServerBackAt + MaxInterval

MayFail(ok) == ~ok => now < ServerBackAt

RecoveryTick == now < RecoveryEnd /\ Tick

RecoveryMaster == \E ok \in BOOLEAN : MayFail(ok) /\ get_master_connection("a", ok)

RecoverySlave == \E ok \in BOOLEAN : MayFail(ok) /\ get_slave_connection("a", 0, ok)

NextRecovery ==
    \/ RecoveryTick
    \/ \E s \in Pooled : now < ServerBackAt /\ SessionDies(s)
    \/ Startup /\ set_master_database_server("a", Server1)
    \/ Startup /\ add_slave_database_server("a", Server1)
    \/ RecoveryMaster
    \/ RecoverySlave

\* The clock advances and both get_* methods are called again and again.
SpecRecovery ==
    /\ Init
    /\ [][NextRecovery]_vars
    /\ WF_vars(RecoveryTick)
    /\ WF_vars(RecoveryMaster)
    /\ WF_vars(RecoverySlave)

\* ================================================================ claims
\* The call of the last step was a get_* call that selected a slot.
Selected(r) == r.op \in AcquireOps /\ r.outcome \in {"ok", "OperationalError"}

\* The handle a get_* call selected.
HandleOf(r) == << RoleOf(r.op), r.name, r.idx, ModeOf(r.op) >>

\* The slot a get_* call selected, as it is now.
SlotOf(r) == IF RoleOf(r.op) = "master" THEN master[r.name] ELSE slave[r.name][r.idx]

\* A get_* call is made on a handle that was checked before, Elapsed ago.
Rechecked == Selected(ret') /\ probe_log[HandleOf(ret')] # None

Elapsed == now - probe_log[HandleOf(ret')]

SessionBefore == SlotOf(ret')[ConnField(ModeOf(ret'.op))]

SessionAfter == (SlotOf(ret)[ConnField(ModeOf(ret.op))])'

\* The call of this step probed, the probe failed and the connect succeeded.
Reconnected == Selected(ret') /\ ret'.connected /\ Len(sessions') = Len(sessions) + 1

\* C2: when an acquire probes, the probe fails (no session in the slot, or a
\* broken one) and the connect succeeds, the acquire returns normally, the slot
\* holds a brand-new session that differs from the one it held, the wrapper
\* returned wraps that session, and a probe on it succeeds.
C2_Reconnect ==
    [][Reconnected =>
        /\ ret'.probed
        /\ ret'.outcome = "ok"
        /\ SessionAfter # None
        /\ SessionAfter # SessionBefore
        /\ SessionAfter \notin 1..Len(sessions)
        /\ ret'.returned = Wrap(ModeOf(ret'.op), SessionAfter)
        /\ ProbeOk(sessions', SessionAfter)]_vars

\* An acquire replaced the broken first session of its handle by a second one.
C2_Witness ==
    /\ Selected(ret)
    /\ ret.connected
    /\ ret.outcome = "ok"
    /\ Len(sessions) = 2
    /\ ret.returned.connection = 2
    /\ sessions[1].status = "broken"
    /\ sessions[1].autocommit = sessions[2].autocommit

\* C3 as claimed: after an acquire whose connect failed, the slot holds no
\* session for that mode.
C3_AsClaimed ==
    (Selected(ret) /\ ret.outcome = "OperationalError")
        => SlotOf(ret)[ConnField(ModeOf(ret.op))] = None

\* C4 as claimed: every acquire that returns normally returns a wrapper around
\* a session a successful connect created, never around None.
C4_AsClaimed ==
    (ret.op \in AcquireOps /\ ret.outcome = "ok")
        => ret.returned.connection \in 1..Len(sessions)

\* The name of this step's get_* call was never registered.
UnknownName ==
    ret'.op \in AcquireOps /\ ret'.name \notin (DOMAIN master) \cup (DOMAIN slave)

\* This step's call asks for a slave of a name with a master and no slave.
NoSlave ==
    /\ ret'.op \in {"get_slave_connection", "get_slave_transactional_connection"}
    /\ ret'.name \in DOMAIN master
    /\ ret'.name \notin DOMAIN slave

PoolUnchanged == UNCHANGED << master, slave, sessions, probe_log, now >>

RECURSIVE Registered(_, _, _)
Registered(calls, kind, name) ==
    IF calls = << >> THEN << >>
    ELSE (IF Head(calls).kind = kind /\ Head(calls).name = name
          THEN << Head(calls).server >> ELSE << >>)
         \o Registered(Tail(calls), kind, name)

\* The servers of the slots of the slave list of a name.
SlaveServers(name) ==
    IF name \in DOMAIN slave
    THEN [i \in 1..Len(slave[name]) |-> ServerOf(slave[name][i])]
    ELSE << >>

RegistryMatchesCalls ==
    \A name \in Names :
        LET masters == Registered(regs, "master", name)
        IN  /\ (name \in DOMAIN master) <=> (masters # << >>)
            /\ name \in DOMAIN master =>
                ServerOf(master[name]) = masters[Len(masters)]
            /\ SlaveServers(name) = Registered(regs, "slave", name)
            /\ name \in DOMAIN slave => slave[name] # << >>

\* The slots of a name, master first.
SlotsOf(name) ==
    << IF name \in DOMAIN master THEN << master[name] >> ELSE << >>,
       IF name \in DOMAIN slave THEN slave[name] ELSE << >> >>

RegistrationFrame ==
    /\ \A name \in Names \ {ret'.name} : SlotsOf(name)' = SlotsOf(name)
    /\ ret'.op = "add_slave_database_server" => master' = master
    /\ ret'.op = "set_master_database_server" => slave' = slave

\* C6: after any sequence of registration calls, a name has a master slot iff
\* a master was registered for it, with the parameters of the most recent such
\* call, and its slave list is the sequence of its slave registrations in call
\* order; a registration changes no slot of another name, and a slave
\* registration does not change a master slot.
C6_Registry == []RegistryMatchesCalls /\ [][RegistrationFrame]_vars

\* A name whose master was registered twice, with different parameters, and
\* that has two slaves with different parameters.
C6_Witness ==
    /\ Len(Registered(regs, "master", "a")) = 2
    /\ Registered(regs, "master", "a")[1] # Registered(regs, "master", "a")[2]
    /\ "a" \in DOMAIN slave
    /\ Len(slave["a"]) = 2
    /\ ServerOf(slave["a"][1]) # ServerOf(slave["a"][2])


\* The session c was connected with the parameters of the slot the last call
\* selected, and that slot holds it in the position of the call's mode.
RoutedTo(c) ==
    /\ c \in 1..Len(sessions)
    /\ RoleOf(ret.op) = "master" => ret.name \in DOMAIN master
    /\ RoleOf(ret.op) = "slave" =>
        (ret.name \in DOMAIN slave /\ ret.idx \in 1..Len(slave[ret.name]))
    /\ sessions[c].server = ServerOf(SlotOf(ret))
    /\ SlotOf(ret)[ConnField(ModeOf(ret.op))] = c

\* C7 as claimed: every get_slave_* call that returns normally returns a
\* session connected with the parameters of a slot of the slave list of the
\* name asked for, and every get_master_* call one of the master registered
\* for that name.
C7_AsClaimed ==
    (ret.op \in AcquireOps /\ ret.outcome = "ok") => RoutedTo(ret.returned.connection)


\* The lifetimes an endpoint could be given.
Lifetimes == 1..MaxTime

\* This step's call probed a handle whose session is healthy and older than L.
ProbedHealthyOlderThan(L) ==
    /\ Selected(ret')
    /\ ret'.probed
    /\ ProbeOk(sessions, SessionBefore)
    /\ now - sessions[SessionBefore].started_at > L

\* C8 as claimed: with a maximum lifetime L, an acquire that checks a handle
\* whose healthy session was started more than L ago replaces that session by
\* a brand-new one.
C8_AsClaimed ==
    [][\A L \in Lifetimes :
        ProbedHealthyOlderThan(L) =>
            (SessionAfter # SessionBefore /\ SessionAfter \notin 1..Len(sessions))]_vars

\* C9 as claimed: no session has more than one cursor open at a time, and an
\* open_cursor on a session that has a cursor open fails.
C9_AsClaimed ==
    /\ \A s \in 1..Len(sessions) : sessions[s].cursors <= 1
    /\ (ret.op = "open_cursor" /\ ret.outcome = "ok")
        => sessions[ret.returned.connection].cursors = 1

\* C10 as claimed: after __del__ every session a slot holds is closed, and when
\* one close() fails all the other sessions are closed all the same.
C10_AsClaimed ==
    ret.op = "del" =>
        \A i \in 1..Len(CloseOrder) :
            i # ret.idx => sessions[CloseOrder[i]].status = "closed"


\* The slots of the pool, masters and slaves alike.
AllSlots ==
    { master[n] : n \in DOMAIN master }
    \cup UNION { { slave[n][i] : i \in 1..Len(slave[n]) } : n \in DOMAIN slave }

\* C11: every session in the plain position of a slot is in autocommit mode and
\* every session in the transactional position is not; a plain get_* call
\* returns a PGWizardConnection around an autocommit session, a transactional
\* one a PGWizardTransactionalConnection around a session that is not.
C11_SessionModes ==
    /\ \A slot \in AllSlots :
        /\ slot.connection # None => sessions[slot.connection].autocommit
        /\ slot.transactional_connection # None =>
            ~sessions[slot.transactional_connection].autocommit
    /\ (ret.op \in AcquireOps /\ ret.outcome = "ok") =>
        /\ ret.returned.cls = (IF ModeOf(ret.op) = "plain" THEN "PGWizardConnection"
                               ELSE "PGWizardTransactionalConnection")
        /\ ret.returned.connection # None =>
            (sessions[ret.returned.connection].autocommit <=> ModeOf(ret.op) = "plain")

\* A slot holds a session in each position, and the last call returned the
\* transactional one.
C11_Witness ==
    \E slot \in AllSlots :
        /\ slot.connection # None
        /\ slot.transactional_connection # None
        /\ ModeOf(ret.op) = "transactional"
        /\ ret.op \in AcquireOps
        /\ ret.outcome = "ok"
        /\ ret.returned.connection = slot.transactional_connection


\* This step's get_* call comes less than the interval after the last check of
\* its handle.
Throttled == Rechecked /\ Elapsed < connection_test_interval

\* C12: an acquire made less than the interval after the last check of its
\* handle performs no probe and no connect, changes no slot (the session and
\* both expiration times of its own slot included) and no session, and returns
\* a wrapper around the session its slot held before the call, dead or alive.
C12_ThrottledFrame ==
    [][Throttled =>
        /\ ~ret'.probed
        /\ ~ret'.connected
        /\ ret'.outcome = "ok"
        /\ master' = master
        /\ slave' = slave
        /\ sessions' = sessions
        /\ probe_log' = probe_log
        /\ ret'.returned = Wrap(ModeOf(ret'.op), SessionBefore)]_vars

\* A throttled acquire returned the session of its slot although that session
\* had died since the last check.
C12_Witness ==
    /\ Selected(ret)
    /\ ~ret.probed
    /\ probe_log[HandleOf(ret)] # None
    /\ now - probe_log[HandleOf(ret)] < connection_test_interval
    /\ ret.returned.connection # None
    /\ sessions[ret.returned.connection].status = "broken"
    /\ SlotOf(ret)[ConnField(ModeOf(ret.op))] = ret.returned.connection


\* The slot this step's get_* call selected, after the call.
SlotAfter == (SlotOf(ret))'

OtherMode(mode) == IF mode = "plain" THEN "transactional" ELSE "plain"

\* The call of this step selected the master slot of name n.
SelectedMaster(n) == RoleOf(ret'.op) = "master" /\ ret'.name = n

\* The call of this step selected the slave slot i of name n.
SelectedSlave(n, i) == RoleOf(ret'.op) = "slave" /\ ret'.name = n /\ ret'.idx = i

\* C13: an acquire leaves the session and the expiration time of the other
\* mode of its slot unchanged, changes no other slot (no other slave, no
\* master, no slot of another name) and no session other than the one its own
\* handle held.
C13_HandleFrame ==
    [][Selected(ret') =>
        /\ SlotAfter[ConnField(OtherMode(ModeOf(ret'.op)))]
            = SlotOf(ret')[ConnField(OtherMode(ModeOf(ret'.op)))]
        /\ SlotAfter[ExpField(OtherMode(ModeOf(ret'.op)))]
            = SlotOf(ret')[ExpField(OtherMode(ModeOf(ret'.op)))]
        /\ DOMAIN master' = DOMAIN master
        /\ DOMAIN slave' = DOMAIN slave
        /\ \A n \in DOMAIN master : SelectedMaster(n) \/ master'[n] = master[n]
        /\ \A n \in DOMAIN slave :
            /\ Len(slave'[n]) = Len(slave[n])
            /\ \A i \in 1..Len(slave[n]) : SelectedSlave(n, i) \/ slave'[n][i] = slave[n][i]
        /\ \A s \in 1..Len(sessions) : s = SessionBefore \/ sessions'[s] = sessions[s]]_vars

\* A slave acquire connected a session while the master of name "a" held a
\* plain session and a transactional expiration time.
C13_Witness ==
    /\ Selected(ret)
    /\ RoleOf(ret.op) = "slave"
    /\ ret.connected
    /\ ret.outcome = "ok"
    /\ "a" \in DOMAIN master
    /\ master["a"].connection # None
    /\ master["a"].connection_test_expiration_time # None
    /\ master["a"].transactional_connection_test_expiration_time # None
    /\ master["a"].transactional_connection_test_expiration_time
        # master["a"].connection_test_expiration_time


\* The handle h names a position of a slot the pool has.
HandleExists(h) ==
    IF h[1] = "master" THEN h[3] = 0 /\ h[2] \in DOMAIN master
    ELSE h[2] \in DOMAIN slave /\ h[3] \in 1..Len(slave[h[2]])

\* The handles of the slots the pool has.
Handles ==
    { << "master", n, 0, mode >> : n \in DOMAIN master, mode \in Modes }
    \cup UNION { { << "slave", n, i, mode >> : i \in 1..Len(slave[n]), mode \in Modes } :
                    n \in DOMAIN slave }

SlotAt(h) == IF h[1] = "master" THEN master[h[2]] ELSE slave[h[2]][h[3]]

\* The session in the position of handle h, or None.
PositionOf(h) == SlotAt(h)[ConnField(h[4])]

\* A position holds a session only if its handle was checked since the slot was
\* registered, and the session was connected with the parameters of the slot, in
\* the mode of the position.
HeldOnlyAfterAcquire ==
    \A h \in Handles :
        PositionOf(h) # None =>
            /\ probe_log[h] # None
            /\ PositionOf(h) \in 1..Len(sessions)
            /\ sessions[PositionOf(h)].server = ServerOf(SlotAt(h))
            /\ sessions[PositionOf(h)].autocommit = (h[4] = "plain")
            /\ sessions[PositionOf(h)].started_at <= probe_log[h]

RegistrationStep ==
    ret'.op \in {"set_master_database_server", "add_slave_database_server"}

\* The slot this step's registration call created.
RegisteredSlot ==
    IF ret'.op = "set_master_database_server" THEN master'[ret'.name]
    ELSE slave'[ret'.name][Len(slave'[ret'.name])]

\* A registration connects nothing and leaves the slot it creates empty.
RegistrationIsLocal ==
    RegistrationStep =>
        /\ sessions' = sessions
        /\ ~ret'.probed
        /\ ~ret'.connected
        /\ RegisteredSlot.connection = None
        /\ RegisteredSlot.transactional_connection = None
        /\ RegisteredSlot.connection_test_expiration_time = None
        /\ RegisteredSlot.transactional_connection_test_expiration_time = None

\* A position comes to hold a session only in a step of a get_* call of its own
\* handle whose connect succeeded, and the session is the one just connected.
FilledByConnect ==
    \A h \in Handles' :
        (/\ PositionOf(h)' # None
         /\ (~HandleExists(h) \/ PositionOf(h)' # PositionOf(h))) =>
            /\ Selected(ret')
            /\ HandleOf(ret') = h
            /\ ret'.connected
            /\ ret'.outcome = "ok"
            /\ Len(sessions') = Len(sessions) + 1
            /\ PositionOf(h)' = Len(sessions')

\* C14: a registration creates no session and attempts no connect, so that
\* after registrations alone no session exists; and a position of a slot holds
\* a session only if a get_* call of that mode that selected that slot has
\* connected it since the slot was registered or registered again.
C14_Lazy ==
    /\ [](regs = << >> => sessions = << >>)
    /\ []HeldOnlyAfterAcquire
    /\ [][RegistrationIsLocal]_vars
    /\ [][FilledByConnect]_vars

\* The master was registered again, with other parameters, after its plain
\* handle had connected a session, and a later plain acquire connected a second
\* one with the new parameters.
C14_Witness ==
    /\ Selected(ret)
    /\ ret.op = "get_master_connection"
    /\ ret.connected
    /\ ret.outcome = "ok"
    /\ Len(regs) = 2
    /\ regs[1].server # regs[2].server
    /\ Len(sessions) = 2
    /\ sessions[1].server = regs[1].server
    /\ sessions[1].autocommit
    /\ sessions[1].status = "live"
    /\ sessions[2].server = regs[2].server
    /\ ret.returned.connection = 2


TransactionalOps ==
    {"get_master_transactional_connection", "get_slave_transactional_connection"}

\* C15: when a transactional get_* call that tested its handle returns
\* normally, it returns a session with no transaction open on it: the probe
\* statement was committed on the session it reused, or the session was just
\* connected.
C15_ProbeCommitted ==
    (ret.op \in TransactionalOps /\ ret.outcome = "ok" /\ ret.probed) =>
        /\ ret.returned.connection \in 1..Len(sessions)
        /\ ~sessions[ret.returned.connection].in_transaction

\* A transactional acquire probed the session its slot held, on which the
\* caller has a cursor open, and did not replace it.
C15_Witness ==
    /\ ret.op \in TransactionalOps
    /\ ret.outcome = "ok"
    /\ ret.probed
    /\ ~ret.connected
    /\ sessions[ret.returned.connection].status = "live"
    /\ sessions[ret.returned.connection].cursors > 0
    /\ ~sessions[ret.returned.connection].autocommit


\* C19 as claimed: no transactional get_* call, throttled or probing, commits
\* the statements a caller has executed on a transactional session and has
\* neither committed nor rolled back.
C19_AsClaimed ==
    [][ret'.op \in TransactionalOps =>
        \A s \in 1..Len(sessions) :
            sessions[s].pending > 0 =>
                (sessions'[s].committed = sessions[s].committed
                 /\ sessions'[s].pending = sessions[s].pending)]_vars


\* The callers that have written the expiration time of their handle and have
\* not finished the probe or the reconnection that follows.
InProgress == {"probe", "connect", "store"}

\* Caller t begins a get_* call in this step.
Begins(t) == threads[t].pc = "idle" /\ threads'[t].pc = "test"

\* Caller t begins while another caller's probe or reconnection of the same
\* handle is in progress, no more than the interval after that caller's test.
BeginsDuringProbe(t) ==
    /\ Begins(t)
    /\ \E u \in Callers \ {t} :
        /\ threads[u].pc \in InProgress
        /\ ThreadHandle(threads[u]) = ThreadHandle(threads'[t])
        /\ now <= threads[u].now + connection_test_interval

\* The test of caller t, made on the values it has read, is not due.
NotDue(th) == ~TestDue(th.expiration_time, th.now)

\* The connect of caller t raises in this step.
ConnectRaises(t) == threads[t].pc = "connect" /\ threads'[t].pc = "idle"

\* C17 as claimed: a caller that begins an acquire of a handle while another
\* caller's probe or reconnection of that handle is in progress, within the
\* interval, finds the test not due and goes on to return without a probe or
\* a connect; and a connect that raises leaves the expiration time as written.
C17_AsClaimed ==
    [][\A t \in Callers :
        /\ BeginsDuringProbe(t) => NotDue(threads'[t])
        /\ (threads[t].pc = "test" /\ NotDue(threads[t]) /\ threads'[t] # threads[t]) =>
            /\ threads'[t].pc = "return"
            /\ ~threads'[t].probed
            /\ ~threads'[t].connected
            /\ master' = master
            /\ sessions' = sessions
        /\ ConnectRaises(t) =>
            /\ master' = master
            /\ ThreadSlot(threads[t])[ExpField(ModeOf(threads[t].op))] # None]_vars


\* The callers that are replacing the session of handle h after a failed probe.
Replacing(h) ==
    { t \in Callers : threads[t].pc \in {"connect", "store"} /\ ThreadHandle(threads[t]) = h }

\* Session s is in a slot, or in the hands of the caller that is about to store it.
Kept(s) ==
    \/ s \in Pooled
    \/ \E t \in Callers : threads[t].pc = "store" /\ threads[t].connection = s

\* C16 as claimed: the test, the probe and the reconnection of a get_* call run
\* as one step with respect to the other callers of the handle: at no time are
\* two callers replacing the session of the same handle after a failed probe,
\* and no session that was connected and has not died is dropped from its slot
\* in favour of another caller's new session.
C16_AsClaimed ==
    /\ \A h \in HandleKeys : Cardinality(Replacing(h)) <= 1
    /\ \A s \in 1..Len(sessions) : sessions[s].status = "live" => Kept(s)


\* C18 as claimed: every session the pool has connected and that has not been
\* closed is held in some slot, so that teardown closes it: neither a
\* reconnection nor a second registration of a master leaves an unclosed
\* session no slot refers to.
C18_AsClaimed ==
    \A s \in 1..Len(sessions) : sessions[s].status # "closed" => s \in Pooled


\* The plain handles of the endpoint the pool serves.
RecoveryHandles == { << "master", "a", 0, "plain" >>, << "slave", "a", 1, "plain" >> }

\* The handle has no session, or one whose probe would fail.
Unusable(h) == HandleExists(h) /\ ~ProbeOk(sessions, PositionOf(h))

\* The last call was an acquire of the handle that probed, reconnected and
\* returned a live session, which its slot now holds.
Recovered(h) ==
    /\ Selected(ret)
    /\ HandleOf(ret) = h
    /\ ret.probed
    /\ ret.connected
    /\ ret.outcome = "ok"
    /\ ProbeOk(sessions, ret.returned.connection)
    /\ PositionOf(h) = ret.returned.connection

\* This step's acquire finds its handle unusable one interval or more after
\* the server is back.
LateAcquire ==
    /\ Selected(ret')
    /\ ~ProbeOk(sessions, SessionBefore)
    /\ now >= ServerBackAt + connection_test_interval

\* C20: with the server accepting connections from some point on, the clock
\* advancing and the handle acquired again and again, a handle whose connect
\* failed or whose session died is eventually acquired by a call that probes,
\* reconnects and returns a live session; an acquire less than the interval
\* after the last check attempts no reconnect; and an acquire one interval or
\* more after the server is back does reconnect, so that the handle stays
\* unusable for at most one interval.
C20_Recovery ==
    /\ \A h \in RecoveryHandles : Unusable(h) ~> Recovered(h)
    /\ [][Throttled => ~ret'.connected]_vars
    /\ [][LateAcquire =>
            /\ Reconnected
            /\ ret'.outcome = "ok"
            /\ ProbeOk(sessions', SessionAfter)]_vars

\* A handle whose first session died while the server was away was reconnected
\* by an acquire made after the server was back.
C20_Witness ==
    \E h \in RecoveryHandles :
        /\ Recovered(h)
        /\ now >= ServerBackAt
        /\ Len(sessions) >= 2
        /\ sessions[1].status = "broken"
        /\ sessions[Len(sessions)].started_at = now

====
